---- MODULE Spec2Model ----
(***************************************************************************)
(* Model of StreamDecoder (src/stream_decoder.py): the registry            *)
(* active_streams, the FFmpeg processes it spawns, the caller threads that *)
(* run start_stream / stop_stream / get_stream_status / get_all_streams,   *)
(* and one _monitor_stream thread per successful start_stream.             *)
(* Every step is one access to shared state (the registry dict, an entry   *)
(* dict, a process); Python threads may interleave between any two.        *)
(* NetworkMonitor (src/network_monitor.py) is modelled beside it: its flag *)
(* monitoring, its monitor_thread, the _monitor_loop threads it starts and *)
(* the thread that calls start_monitoring / stop_monitoring.               *)
(***************************************************************************)
EXTENDS Integers, Sequences, FiniteSets, TLC

\* ---------------------------------------------------------------- bounds
MaxProcs == 2
MaxTime == 1
MaxCalls == 3
MaxIdLen == 2
MaxLoops == 3
MaxHistory == 2

Callers == {"c1", "c2"}
Procs == 1..MaxProcs
\* the threading.Thread objects start_monitoring creates
Loops == 1..MaxLoops
StreamIds == {"s1", "s2"}
\* the (stream_url, stream_type) pairs the callers pass to start_stream
Sources == {<<"host:9000", "srt">>, <<"rtmp://other", "rtmp">>}

\* the arguments of calls that all work on one stream from one source
RaceIds == {"s1"}
RaceSources == {<<"host:9000", "srt">>}
\* the caller of the sequential specification
SeqCallers == {"c1"}
SeqIds == {"s1"}
\* the public methods of StreamDecoder, and the two that change the registry
Ops == {"start", "stop", "status", "list"}
LifeOps == {"start", "stop"}
ParseOps == {"start", "stop", "status"}

\* ---------------------------------------------------------------- values
Absent == 0
Hole == "<deleted>"
EOF == <<>>

LineVideo == <<"Stream #", "Video:">>
LineError == <<"Error">>
LineVideoError == <<"Stream #", "Video:", "Error">>
LineOther == <<"frame=">>
Lines == {LineVideo, LineError, LineVideoError, LineOther}
\* the sequential specification leaves the stored status to start_stream and the monitor's poll
SeqLines == {LineOther}
\* lines that spell the error words in another letter case
LineLowerError == <<"error">>
LineUpperFailed == <<"FAILED">>
PairLines == {LineVideo, LineError}
ParseLines == Lines \cup {LineLowerError, LineUpperFailed}

NoInfo == [process |-> Absent, url |-> "", type |-> "", start_time |-> 0, status |-> "none"]
NoRet == [tag |-> "none"]
IdleThread == [pc |-> "idle", op |-> "none", id |-> "", url |-> "", type |-> "",
               nested |-> FALSE, info |-> Absent, ret |-> NoRet,
               pos |-> 0, used |-> 0, left |-> 0, key |-> "",
               acc |-> [i \in StreamIds |-> NoRet]]
NoMonitor == [pc |-> "unstarted", id |-> "", info |-> Absent, pinfo |-> Absent]
ExitedMonitor == [pc |-> "exit", id |-> "", info |-> Absent, pinfo |-> Absent]

Returned(v) == [tag |-> "return", val |-> v]
Listing(m) == [tag |-> "list", streams |-> m]
NotFound == [tag |-> "status", status |-> "not_found"]
Stopped == [tag |-> "status", status |-> "stopped"]
Payload(e, t) == [tag |-> "status", status |-> e.status, url |-> e.url, type |-> e.type,
                  duration |-> t - e.start_time]
Raised(e) == [tag |-> "raise", exc |-> e]
NoBuild == [url |-> <<>>, type |-> <<>>, id |-> <<>>, argv |-> <<>>]
\* the value is a status report whose status is 'stopped'
ReportsStopped(r) == r.tag = "status" /\ r.status = "stopped"
\* monitor_thread before the first start_monitoring
None == 0

VARIABLES
    active_streams,   \* self.active_streams: stream id -> entry (Absent when the key is not in the dict)
    keys,             \* the dict's entry slots in insertion order; a deleted key leaves a Hole
    info,             \* the entry dicts, one per insertion: process, url, type, start_time, status
    proc,             \* the Popen objects' processes: "unspawned", "running", "dead"
    cmd,              \* the session id each process was spawned for
    signals,          \* the signals delivered to each process, in order
    nextProc,         \* the next process to spawn
    now,              \* time.time(), in units of stop_stream's sleep
    calls,            \* the number of API calls made so far
    reported,         \* history: the entries get_stream_status has reported as stopped
    built,            \* the call of _build_ffmpeg_command under study: arguments and result
    th,               \* caller threads: position, arguments, locals, result
    mon,              \* monitor threads, one per spawned process
    monitoring,       \* NetworkMonitor.monitoring
    monitor_thread,   \* NetworkMonitor.monitor_thread: None, or the last thread created
    stats_history,    \* len(NetworkMonitor.stats_history)
    loop,             \* the _monitor_loop threads: "unstarted", "test", "stats", "sleep", "done"
    nextLoop,         \* the next thread to create
    nmcall            \* the thread that calls start_monitoring / stop_monitoring: its position

\* the state of NetworkMonitor and of its threads
networkVars == <<monitoring, monitor_thread, stats_history, loop, nextLoop, nmcall>>

\* the state of StreamDecoder, its callers, its monitors and its processes
decoderVars == <<active_streams, keys, info, proc, cmd, signals, nextProc, now, calls, reported,
                 built, th, mon>>

vars == <<active_streams, keys, info, proc, cmd, signals, nextProc, now, calls, reported, built, th,
          mon, monitoring, monitor_thread, stats_history, loop, nextLoop, nmcall>>

Init ==
    /\ active_streams = [i \in StreamIds |-> Absent]
    /\ keys = <<>>
    /\ info = [p \in Procs |-> NoInfo]
    /\ proc = [p \in Procs |-> "unspawned"]
    /\ cmd = [p \in Procs |-> ""]
    /\ signals = [p \in Procs |-> <<>>]
    /\ nextProc = 1
    /\ now = 0
    /\ calls = 0
    /\ reported = {}
    /\ built = NoBuild
    /\ th = [t \in Callers |-> IdleThread]
    /\ mon = [p \in Procs |-> NoMonitor]
    /\ monitoring = FALSE
    /\ monitor_thread = None
    /\ stats_history = 0
    /\ loop = [l \in Loops |-> "unstarted"]
    /\ nextLoop = 1
    /\ nmcall = "idle"

\* ---------------------------------------------------------------- helpers
\* `s in line` on the diagnostic text, lines being sequences of the substrings that matter
HasSub(line, s) == \E i \in DOMAIN line : line[i] = s

\* process.poll() is not None
Exited(p) == proc[p] = "dead"

\* number of keys in the dict (ma_used)
Used == Cardinality({i \in StreamIds : active_streams[i] # Absent})

\* dict slots after `del d[i]`
DelKey(i) == [k \in DOMAIN keys |-> IF keys[k] = i THEN Hole ELSE keys[k]]

\* dict slots after `d[i] = v`
SetKey(i) == IF active_streams[i] # Absent THEN keys ELSE Append(keys, i)

\* the API call returns or raises: its locals are gone, its arguments and result stay with the caller
Finish(t, r) ==
    th' = [th EXCEPT ![t] = [IdleThread EXCEPT !.pc = "done", !.op = th[t].op, !.id = th[t].id,
                                               !.url = th[t].url, !.type = th[t].type, !.ret = r]]

\* ---------------------------------------------------------------- API entry
Begin(t, ids, sources, ops) ==
    /\ th[t].pc \in {"idle", "done"}
    /\ calls < MaxCalls
    /\ calls' = calls + 1
    /\ \/ \E i \in ids, src \in sources :
            "start" \in ops /\ th' = [th EXCEPT ![t] = [IdleThread EXCEPT !.pc = "start_check", !.op = "start",
                                                       !.id = i, !.url = src[1], !.type = src[2]]]
       \/ \E i \in ids :
            "stop" \in ops /\ th' = [th EXCEPT ![t] = [IdleThread EXCEPT !.pc = "stop_check", !.op = "stop", !.id = i]]
       \/ \E i \in ids :
            "status" \in ops /\ th' = [th EXCEPT ![t] = [IdleThread EXCEPT !.pc = "gs_check", !.op = "status", !.id = i]]
       \/ "list" \in ops /\ th' = [th EXCEPT ![t] = [IdleThread EXCEPT !.pc = "list_begin",
                                                                        !.op = "list"]]
    /\ UNCHANGED <<active_streams, keys, info, proc, cmd, signals, nextProc, now, reported, built, networkVars, mon>>

\* ---------------------------------------------------------------- start_stream
\* start_stream that takes a registered id as already started and returns True
StartCheckKeeps(t) ==
    /\ th[t].pc = "start_check"
    /\ IF active_streams[th[t].id] # Absent
          THEN Finish(t, Returned(TRUE))
          ELSE th' = [th EXCEPT ![t].pc = "start_spawn"]
    /\ UNCHANGED <<active_streams, keys, info, proc, cmd, signals, nextProc, now, calls, built, networkVars, reported, mon>>

\* start_stream without the stop of a registered stream
StartCheckNoStop(t) ==
    /\ th[t].pc = "start_check"
    /\ th' = [th EXCEPT ![t].pc = "start_spawn"]
    /\ UNCHANGED <<active_streams, keys, info, proc, cmd, signals, nextProc, now, calls, built, networkVars, reported, mon>>

\* line 15: if stream_id in self.active_streams: self.stop_stream(stream_id)
StartCheck(t) ==
    /\ th[t].pc = "start_check"
    /\ IF active_streams[th[t].id] # Absent
          THEN th' = [th EXCEPT ![t].pc = "stop_check", ![t].nested = TRUE]
          ELSE th' = [th EXCEPT ![t].pc = "start_spawn"]
    /\ UNCHANGED <<active_streams, keys, info, proc, cmd, signals, nextProc, now, calls, built, networkVars, reported, mon>>

\* lines 20-28: build the command and Popen it; Popen raising is caught at line 50
StartSpawn(t) ==
    /\ th[t].pc = "start_spawn"
    /\ \/ /\ nextProc <= MaxProcs
          /\ proc' = [proc EXCEPT ![nextProc] = "running"]
          /\ cmd' = [cmd EXCEPT ![nextProc] = th[t].id]
          /\ nextProc' = nextProc + 1
          /\ th' = [th EXCEPT ![t].pc = "start_insert", ![t].info = nextProc]
       \/ /\ Finish(t, Returned(FALSE))
          /\ UNCHANGED <<proc, cmd, nextProc>>
    /\ UNCHANGED <<active_streams, keys, info, signals, now, calls, built, networkVars, reported, mon>>

\* start_stream that stores the status 'playing' at once
StartInsertPlaying(t) ==
    /\ th[t].pc = "start_insert"
    /\ LET p == th[t].info IN
       /\ active_streams' = [active_streams EXCEPT ![th[t].id] = p]
       /\ keys' = SetKey(th[t].id)
       /\ info' = [info EXCEPT ![p] = [process |-> p, url |-> th[t].url, type |-> th[t].type,
                                       start_time |-> now, status |-> "playing"]]
       /\ mon' = [mon EXCEPT ![p] = [NoMonitor EXCEPT !.pc = "get", !.id = th[t].id]]
    /\ Finish(t, Returned(TRUE))
    /\ UNCHANGED <<proc, cmd, signals, nextProc, now, calls, built, networkVars, reported>>

\* lines 31-48: store the entry, start the monitor thread, return True
StartInsert(t) ==
    /\ th[t].pc = "start_insert"
    /\ LET p == th[t].info IN
       /\ active_streams' = [active_streams EXCEPT ![th[t].id] = p]
       /\ keys' = SetKey(th[t].id)
       /\ info' = [info EXCEPT ![p] = [process |-> p, url |-> th[t].url, type |-> th[t].type,
                                       start_time |-> now, status |-> "starting"]]
       /\ mon' = [mon EXCEPT ![p] = [NoMonitor EXCEPT !.pc = "get", !.id = th[t].id]]
    /\ Finish(t, Returned(TRUE))
    /\ UNCHANGED <<proc, cmd, signals, nextProc, now, calls, built, networkVars, reported>>

\* ---------------------------------------------------------------- stop_stream
\* what follows stop_stream's return: start_stream goes on to spawn, ignoring the result
StopReturn(t, r) ==
    IF th[t].nested
       THEN th' = [th EXCEPT ![t].pc = "start_spawn", ![t].nested = FALSE]
       ELSE Finish(t, r)

\* stop_stream without the test of line 56
StopCheckMissing(t) ==
    /\ th[t].pc = "stop_check"
    /\ th' = [th EXCEPT ![t].pc = "stop_fetch"]
    /\ UNCHANGED <<active_streams, keys, info, proc, cmd, signals, nextProc, now, calls, built, networkVars, reported, mon>>

\* line 56: if stream_id not in self.active_streams: return False
StopCheck(t) ==
    /\ th[t].pc = "stop_check"
    /\ IF active_streams[th[t].id] = Absent
          THEN StopReturn(t, Returned(FALSE))
          ELSE th' = [th EXCEPT ![t].pc = "stop_fetch"]
    /\ UNCHANGED <<active_streams, keys, info, proc, cmd, signals, nextProc, now, calls, built, networkVars, reported, mon>>

\* lines 59-60, outside the try: a KeyError leaves stop_stream, and start_stream when nested
StopFetch(t) ==
    /\ th[t].pc = "stop_fetch"
    /\ IF active_streams[th[t].id] = Absent
          THEN Finish(t, Raised("KeyError"))
          ELSE th' = [th EXCEPT ![t].pc = "stop_term", ![t].info = active_streams[th[t].id]]
    /\ UNCHANGED <<active_streams, keys, info, proc, cmd, signals, nextProc, now, calls, built, networkVars, reported, mon>>

\* stop_stream that deletes the registry key before it terminates the process
StopTerminateDelFirst(t) ==
    /\ th[t].pc = "stop_term"
    /\ LET p == info[th[t].info].process IN
       signals' = [signals EXCEPT ![p] = IF Exited(p) THEN @ ELSE Append(@, "TERM")]
    /\ active_streams' = [active_streams EXCEPT ![th[t].id] = Absent]
    /\ keys' = DelKey(th[t].id)
    /\ th' = [th EXCEPT ![t].pc = "stop_wait"]
    /\ UNCHANGED <<info, proc, cmd, nextProc, now, calls, built, networkVars, reported, mon>>

\* line 63: process.terminate(), a no-op on a process that has exited; line 65: the sleep starts
StopTerminate(t) ==
    /\ th[t].pc = "stop_term"
    /\ LET p == info[th[t].info].process IN
       signals' = [signals EXCEPT ![p] = IF Exited(p) THEN @ ELSE Append(@, "TERM")]
    /\ th' = [th EXCEPT ![t].pc = "stop_wait"]
    /\ UNCHANGED <<active_streams, keys, info, proc, cmd, nextProc, now, calls, built, networkVars, reported, mon>>

\* stop_stream that kills every FFmpeg process that runs
StopKillEvery(t) ==
    /\ th[t].pc = "stop_wait"
    /\ now' = IF now < MaxTime THEN now + 1 ELSE now
    /\ proc' = [p \in Procs |-> IF proc[p] = "running" THEN "dead" ELSE proc[p]]
    /\ signals' = [p \in Procs |-> IF proc[p] = "running" THEN Append(signals[p], "KILL")
                                                           ELSE signals[p]]
    /\ th' = [th EXCEPT ![t].pc = "stop_del"]
    /\ UNCHANGED <<active_streams, keys, info, cmd, nextProc, calls, built, networkVars, reported, mon>>

\* stop_stream that kills without the poll of line 66
StopKillAlways(t) ==
    /\ th[t].pc = "stop_wait"
    /\ now' = IF now < MaxTime THEN now + 1 ELSE now
    /\ LET p == info[th[t].info].process IN
       /\ proc' = [proc EXCEPT ![p] = "dead"]
       /\ signals' = [signals EXCEPT ![p] = Append(@, "KILL")]
    /\ th' = [th EXCEPT ![t].pc = "stop_del"]
    /\ UNCHANGED <<active_streams, keys, info, cmd, nextProc, calls, built, networkVars, reported, mon>>

\* stop_stream without the kill of lines 66-67
StopKillNever(t) ==
    /\ th[t].pc = "stop_wait"
    /\ now' = IF now < MaxTime THEN now + 1 ELSE now
    /\ th' = [th EXCEPT ![t].pc = "stop_del"]
    /\ UNCHANGED <<active_streams, keys, info, proc, cmd, signals, nextProc, calls, built, networkVars, reported, mon>>

\* lines 65-67: the sleep ends, one unit of time later at the earliest;
\* if process.poll() is None: process.kill()
StopKill(t) ==
    /\ th[t].pc = "stop_wait"
    /\ now' = IF now < MaxTime THEN now + 1 ELSE now
    /\ LET p == info[th[t].info].process IN
       IF Exited(p)
          THEN UNCHANGED <<proc, signals>>
          ELSE /\ proc' = [proc EXCEPT ![p] = "dead"]
               /\ signals' = [signals EXCEPT ![p] = Append(@, "KILL")]
    /\ th' = [th EXCEPT ![t].pc = "stop_del"]
    /\ UNCHANGED <<active_streams, keys, info, cmd, nextProc, calls, built, networkVars, reported, mon>>

\* stop_stream that reports a forced kill as a failure
StopDelReportsKill(t) ==
    /\ th[t].pc = "stop_del"
    /\ IF active_streams[th[t].id] = Absent
          THEN /\ StopReturn(t, Returned(FALSE))
               /\ UNCHANGED <<active_streams, keys>>
          ELSE /\ active_streams' = [active_streams EXCEPT ![th[t].id] = Absent]
               /\ keys' = DelKey(th[t].id)
               /\ StopReturn(t, Returned(\A k \in DOMAIN signals[info[th[t].info].process] :
                                            signals[info[th[t].info].process][k] # "KILL"))
    /\ UNCHANGED <<info, proc, cmd, signals, nextProc, now, calls, built, networkVars, reported, mon>>

\* lines 69-75: del self.active_streams[stream_id]; a KeyError is caught and gives False
StopDel(t) ==
    /\ th[t].pc = "stop_del"
    /\ IF active_streams[th[t].id] = Absent
          THEN /\ StopReturn(t, Returned(FALSE))
               /\ UNCHANGED <<active_streams, keys>>
          ELSE /\ active_streams' = [active_streams EXCEPT ![th[t].id] = Absent]
               /\ keys' = DelKey(th[t].id)
               /\ StopReturn(t, Returned(TRUE))
    /\ UNCHANGED <<info, proc, cmd, signals, nextProc, now, calls, built, networkVars, reported, mon>>

\* ---------------------------------------------------------------- get_stream_status
\* the id get_stream_status was called with: the API argument, or get_all_streams' loop variable
GsId(t) == IF th[t].op = "list" THEN th[t].key ELSE th[t].id

\* what follows get_stream_status' return: get_all_streams stores the value and iterates on
GsReturn(t, r) ==
    /\ IF th[t].op = "list"
          THEN IF r.tag = "raise"
                  THEN Finish(t, r)
                  ELSE th' = [th EXCEPT ![t].pc = "list_iter", ![t].acc[th[t].key] = r,
                                        ![t].info = Absent]
          ELSE Finish(t, r)
    /\ reported' = IF ReportsStopped(r) THEN reported \cup {th[t].info} ELSE reported

\* get_stream_status goes on to its next statement
GsGoto(t, pc) ==
    /\ th' = [th EXCEPT ![t].pc = pc]
    /\ UNCHANGED reported

\* line 151: if stream_id not in self.active_streams: return {'status': 'not_found'}
GsCheck(t) ==
    /\ th[t].pc = "gs_check"
    /\ IF active_streams[GsId(t)] = Absent
          THEN GsReturn(t, NotFound)
          ELSE GsGoto(t, "gs_fetch")
    /\ UNCHANGED <<active_streams, keys, info, proc, cmd, signals, nextProc, now, calls, built, networkVars, mon>>

\* lines 154-155: stream_info = self.active_streams[stream_id], a KeyError when the key has gone
GsFetch(t) ==
    /\ th[t].pc = "gs_fetch"
    /\ IF active_streams[GsId(t)] = Absent
          THEN GsReturn(t, Raised("KeyError"))
          ELSE /\ th' = [th EXCEPT ![t].pc = "gs_poll", ![t].info = active_streams[GsId(t)]]
               /\ UNCHANGED reported
    /\ UNCHANGED <<active_streams, keys, info, proc, cmd, signals, nextProc, now, calls, built, networkVars, mon>>

\* get_stream_status without the liveness test: the stored status is always reported
GsPollStored(t) ==
    /\ th[t].pc = "gs_poll"
    /\ GsGoto(t, "gs_payload")
    /\ UNCHANGED <<active_streams, keys, info, proc, cmd, signals, nextProc, now, calls, built, networkVars, mon>>

\* get_stream_status that removes the entry of an exited process
GsPollReaps(t) ==
    /\ th[t].pc = "gs_poll"
    /\ IF Exited(info[th[t].info].process)
          THEN /\ GsReturn(t, Stopped)
               /\ active_streams' = [active_streams EXCEPT ![GsId(t)] = Absent]
               /\ keys' = DelKey(GsId(t))
          ELSE /\ GsGoto(t, "gs_payload")
               /\ UNCHANGED <<active_streams, keys>>
    /\ UNCHANGED <<info, proc, cmd, signals, nextProc, now, calls, built, networkVars, mon>>

\* get_stream_status with the liveness test inverted: poll() is None
GsPollInverted(t) ==
    /\ th[t].pc = "gs_poll"
    /\ IF ~Exited(info[th[t].info].process)
          THEN GsReturn(t, Stopped)
          ELSE GsGoto(t, "gs_payload")
    /\ UNCHANGED <<active_streams, keys, info, proc, cmd, signals, nextProc, now, calls, built, networkVars, mon>>

\* lines 157-158: if process.poll() is not None: return {'status': 'stopped'}
GsPoll(t) ==
    /\ th[t].pc = "gs_poll"
    /\ IF Exited(info[th[t].info].process)
          THEN GsReturn(t, Stopped)
          ELSE GsGoto(t, "gs_payload")
    /\ UNCHANGED <<active_streams, keys, info, proc, cmd, signals, nextProc, now, calls, built, networkVars, mon>>

\* get_stream_status that returns the stored status alone
GsPayloadStatusOnly(t) ==
    /\ th[t].pc = "gs_payload"
    /\ GsReturn(t, [tag |-> "status", status |-> info[th[t].info].status])
    /\ UNCHANGED <<active_streams, keys, info, proc, cmd, signals, nextProc, now, calls, built, networkVars, mon>>

\* lines 160-165: the payload, read from the entry fetched at line 154
GsPayload(t) ==
    /\ th[t].pc = "gs_payload"
    /\ GsReturn(t, Payload(info[th[t].info], now))
    /\ UNCHANGED <<active_streams, keys, info, proc, cmd, signals, nextProc, now, calls, built, networkVars, mon>>

\* ---------------------------------------------------------------- get_all_streams
\* line 171: iter(self.active_streams) records the dict's size
ListBegin(t) ==
    /\ th[t].pc = "list_begin"
    /\ th' = [th EXCEPT ![t].pc = "list_iter", ![t].pos = 1, ![t].used = Used, ![t].left = Used]
    /\ UNCHANGED <<active_streams, keys, info, proc, cmd, signals, nextProc, now, calls, built, networkVars, reported, mon>>

\* the slots at or after position n that hold a key
LiveSlots(n) == {k \in DOMAIN keys : k >= n /\ keys[k] # Hole}

\* the least element of a non-empty set of slots
FirstSlot(S) == CHOOSE k \in S : \A j \in S : k <= j

\* lines 169-172: the next key of the dict iterator, which raises when the dict changed
\* under it; the comprehension then calls get_stream_status(stream_id)
ListNext(t) ==
    /\ th[t].pc = "list_iter"
    /\ IF th[t].used # Used
          THEN Finish(t, Raised("RuntimeError"))
          ELSE IF LiveSlots(th[t].pos) = {}
                  THEN Finish(t, Listing(th[t].acc))
                  ELSE IF th[t].left = 0
                          THEN Finish(t, Raised("RuntimeError"))
                          ELSE LET k == FirstSlot(LiveSlots(th[t].pos)) IN
                               th' = [th EXCEPT ![t].pc = "gs_check", ![t].key = keys[k],
                                                ![t].pos = k + 1, ![t].left = @ - 1]
    /\ UNCHANGED <<active_streams, keys, info, proc, cmd, signals, nextProc, now, calls, built, networkVars, reported, mon>>

\* ---------------------------------------------------------------- _monitor_stream
\* lines 111-115: stream_info = self.active_streams.get(stream_id); return when there is none
MonGet(p) ==
    /\ mon[p].pc = "get"
    /\ IF active_streams[mon[p].id] = Absent
          THEN mon' = [mon EXCEPT ![p] = ExitedMonitor]
          ELSE mon' = [mon EXCEPT ![p].pc = "loop", ![p].info = active_streams[mon[p].id]]
    /\ UNCHANGED <<active_streams, keys, info, proc, cmd, signals, nextProc, now, calls, built, networkVars, reported, th>>

\* a monitor that removes the entry of a process that has ended
MonLoopReaps(p) ==
    /\ mon[p].pc = "loop"
    /\ IF active_streams[mon[p].id] = Absent
          THEN /\ mon' = [mon EXCEPT ![p] = ExitedMonitor]
               /\ UNCHANGED <<info, active_streams, keys>>
          ELSE IF Exited(info[mon[p].info].process)
                  THEN /\ info' = [info EXCEPT ![mon[p].info].status = "stopped"]
                       /\ active_streams' = [active_streams EXCEPT ![mon[p].id] = Absent]
                       /\ keys' = DelKey(mon[p].id)
                       /\ mon' = [mon EXCEPT ![p] = ExitedMonitor]
                  ELSE /\ mon' = [mon EXCEPT ![p].pc = "read"]
                       /\ UNCHANGED <<info, active_streams, keys>>
    /\ UNCHANGED <<proc, cmd, signals, nextProc, now, calls, built, networkVars, reported, th>>

\* a monitor that marks its entry 'not_found' when the id has left the registry
MonLoopMarksNotFound(p) ==
    /\ mon[p].pc = "loop"
    /\ IF active_streams[mon[p].id] = Absent
          THEN /\ mon' = [mon EXCEPT ![p] = ExitedMonitor]
               /\ info' = [info EXCEPT ![mon[p].info].status = "not_found"]
          ELSE IF Exited(info[mon[p].info].process)
                  THEN /\ info' = [info EXCEPT ![mon[p].info].status = "stopped"]
                       /\ mon' = [mon EXCEPT ![p] = ExitedMonitor]
                  ELSE /\ mon' = [mon EXCEPT ![p].pc = "read"]
                       /\ UNCHANGED info
    /\ UNCHANGED <<active_streams, keys, proc, cmd, signals, nextProc, now, calls, built, networkVars, reported, th>>

\* a monitor whose loop tests the registry only, without the poll of the process
MonLoopNoPoll(p) ==
    /\ mon[p].pc = "loop"
    /\ IF active_streams[mon[p].id] = Absent
          THEN mon' = [mon EXCEPT ![p] = ExitedMonitor]
          ELSE mon' = [mon EXCEPT ![p].pc = "read"]
    /\ UNCHANGED <<active_streams, keys, info, proc, cmd, signals, nextProc, now, calls, built, networkVars, reported, th>>

\* a monitor that works the stream type out again when the process has ended
MonLoopResolves(p) ==
    /\ mon[p].pc = "loop"
    /\ IF active_streams[mon[p].id] = Absent
          THEN /\ mon' = [mon EXCEPT ![p] = ExitedMonitor]
               /\ UNCHANGED info
          ELSE IF Exited(info[mon[p].info].process)
                  THEN /\ info' = [info EXCEPT ![mon[p].info].status = "stopped",
                                               ![mon[p].info].type = "auto"]
                       /\ mon' = [mon EXCEPT ![p] = ExitedMonitor]
                  ELSE /\ mon' = [mon EXCEPT ![p].pc = "read"]
                       /\ UNCHANGED info
    /\ UNCHANGED <<active_streams, keys, proc, cmd, signals, nextProc, now, calls, built, networkVars, reported, th>>

\* lines 117-122: while stream_id in self.active_streams; a process that has ended sets the
\* status of the monitor's entry and leaves the loop
MonLoop(p) ==
    /\ mon[p].pc = "loop"
    /\ IF active_streams[mon[p].id] = Absent
          THEN /\ mon' = [mon EXCEPT ![p] = ExitedMonitor]
               /\ UNCHANGED info
          ELSE IF Exited(info[mon[p].info].process)
                  THEN /\ info' = [info EXCEPT ![mon[p].info].status = "stopped"]
                       /\ mon' = [mon EXCEPT ![p] = ExitedMonitor]
                  ELSE /\ mon' = [mon EXCEPT ![p].pc = "read"]
                       /\ UNCHANGED info
    /\ UNCHANGED <<active_streams, keys, proc, cmd, signals, nextProc, now, calls, built, networkVars, reported, th>>

\* line 141: 'Stream #' in line and 'Video:' in line
IsVideo(line) == HasSub(line, "Stream #") /\ HasSub(line, "Video:")

\* line 145: 'Error' in line or 'Failed' in line
IsError(line) == HasSub(line, "Error") \/ HasSub(line, "Failed")

\* a monitor for which only a stream that is starting begins to play
MonReadLineFromStarting(p, line) ==
    /\ mon[p].pc = "read"
    /\ line = EOF => Exited(info[mon[p].info].process)
    /\ LET e == active_streams[mon[p].id] IN
       IF line = EOF \/ e = Absent
          THEN /\ mon' = [mon EXCEPT ![p].pc = "loop"]
               /\ UNCHANGED info
          ELSE /\ info' = IF IsVideo(line) /\ info[e].status = "starting"
                             THEN [info EXCEPT ![e].status = "playing"] ELSE info
               /\ mon' = IF IsError(line)
                            THEN [mon EXCEPT ![p].pc = "parse_error", ![p].pinfo = e]
                            ELSE [mon EXCEPT ![p].pc = "loop"]
    /\ UNCHANGED <<active_streams, keys, proc, cmd, signals, nextProc, now, calls, built, networkVars, reported, th>>

\* lines 126-128 and 136-142: readline() gives a line the process wrote, or nothing once it
\* has exited; a line goes to _parse_ffmpeg_output, which looks the entry up again and
\* makes its first test
MonReadLine(p, line) ==
    /\ mon[p].pc = "read"
    /\ line = EOF => Exited(info[mon[p].info].process)
    /\ LET e == active_streams[mon[p].id] IN
       IF line = EOF \/ e = Absent
          THEN /\ mon' = [mon EXCEPT ![p].pc = "loop"]
               /\ UNCHANGED info
          ELSE /\ info' = IF IsVideo(line) THEN [info EXCEPT ![e].status = "playing"] ELSE info
               /\ mon' = IF IsError(line)
                            THEN [mon EXCEPT ![p].pc = "parse_error", ![p].pinfo = e]
                            ELSE [mon EXCEPT ![p].pc = "loop"]
    /\ UNCHANGED <<active_streams, keys, proc, cmd, signals, nextProc, now, calls, built, networkVars, reported, th>>

\* the monitor reads one of the lines the process can write, or the end of its output
MonRead(p, lines) ==
    /\ mon[p].pc = "read"
    /\ \E line \in lines \cup {EOF} : MonReadLine(p, line)

\* a monitor that kills the process of a stream in error
MonParseErrorKills(p) ==
    /\ mon[p].pc = "parse_error"
    /\ info' = [info EXCEPT ![mon[p].pinfo].status = "error"]
    /\ proc' = [proc EXCEPT ![info[mon[p].pinfo].process] = "dead"]
    /\ signals' = [signals EXCEPT ![info[mon[p].pinfo].process] = Append(@, "KILL")]
    /\ mon' = [mon EXCEPT ![p].pc = "loop", ![p].pinfo = Absent]
    /\ UNCHANGED <<active_streams, keys, cmd, nextProc, now, calls, built, networkVars, reported, th>>

\* lines 145-147 for a line that holds 'Error' or 'Failed', then the sleep of line 132
MonParseError(p) ==
    /\ mon[p].pc = "parse_error"
    /\ info' = [info EXCEPT ![mon[p].pinfo].status = "error"]
    /\ mon' = [mon EXCEPT ![p].pc = "loop", ![p].pinfo = Absent]
    /\ UNCHANGED <<active_streams, keys, proc, cmd, signals, nextProc, now, calls, built, networkVars, reported, th>>

\* ---------------------------------------------------------------- environment
\* the FFmpeg process ends on its own, or on the SIGTERM it was sent
ProcExit(p) ==
    /\ proc[p] = "running"
    /\ proc' = [proc EXCEPT ![p] = "dead"]
    /\ UNCHANGED <<active_streams, keys, info, cmd, signals, nextProc, now, calls, built, networkVars, reported, th, mon>>

\* ---------------------------------------------------------------- _build_ffmpeg_command
\* strings are sequences of characters; a literal the code never takes apart is one piece
StringsUpTo(S, n) == UNION {[1..k -> S] : k \in 0..n}
IdChars == {"a", ".", "/"}
BuildIds == StringsUpTo(IdChars, MaxIdLen)
BuildUrls == {<<"h">>, <<"u", "d", "p", ":", "/", "/", "h">>}
BuildTypes == {<<"s", "r", "t">>, <<"S", "R", "T">>, <<"R", "t", "m", "p">>, <<"u", "d", "p">>,
               <<"a", "u", "t", "o">>, <<>>}

\* str.lower(), on the letters that BuildTypes holds in upper case
Lower(c) == CASE c = "S" -> "s" [] c = "R" -> "r" [] c = "T" -> "t" [] OTHER -> c
LowerStr(str) == [k \in DOMAIN str |-> Lower(str[k])]

\* a variant that writes every stream to one playlist
BuildFfmpegCommandOneSink(stream_url, stream_type, stream_id) ==
    LET base_cmd == << <<"/usr/bin/ffmpeg">>, <<"-loglevel">>, <<"error">>, <<"-stimeout">>,
                       <<"30000000">> >>
        input_opts ==
           IF LowerStr(stream_type) = <<"s", "r", "t">>
              THEN << <<"-i">>, <<"s", "r", "t", ":", "/", "/">> \o stream_url >>
              ELSE IF LowerStr(stream_type) = <<"r", "t", "m", "p">>
                      THEN << <<"-i">>, <<"r", "t", "m", "p", ":", "/", "/">> \o stream_url >>
                      ELSE IF LowerStr(stream_type) = <<"u", "d", "p">>
                              THEN << <<"-i">>, <<"u", "d", "p", ":", "/", "/">> \o stream_url >>
                              ELSE << <<"-i">>, stream_url >>
        output_opts == << <<"-c:v">>, <<"h264_v4l2m2m">>, <<"-c:a">>, <<"aac">>, <<"-f">>, <<"hls">>,
                          <<"-hls_time">>, <<"2">>, <<"-hls_list_size">>, <<"3">>,
                          <<"-hls_flags">>, <<"delete_segments">>,
                          <<"/", "t", "m", "p", "/", "s", "t", "r", "e", "a", "m">>
                             \o <<".", "m", "3", "u", "8">> >>
    IN base_cmd \o input_opts \o output_opts

\* a variant whose playlist name depends on how many streams are registered
BuildFfmpegCommandCounted(stream_url, stream_type, stream_id) ==
    LET base_cmd == << <<"/usr/bin/ffmpeg">>, <<"-loglevel">>, <<"error">>, <<"-stimeout">>,
                       <<"30000000">> >>
        input_opts ==
           IF LowerStr(stream_type) = <<"s", "r", "t">>
              THEN << <<"-i">>, <<"s", "r", "t", ":", "/", "/">> \o stream_url >>
              ELSE IF LowerStr(stream_type) = <<"r", "t", "m", "p">>
                      THEN << <<"-i">>, <<"r", "t", "m", "p", ":", "/", "/">> \o stream_url >>
                      ELSE IF LowerStr(stream_type) = <<"u", "d", "p">>
                              THEN << <<"-i">>, <<"u", "d", "p", ":", "/", "/">> \o stream_url >>
                              ELSE << <<"-i">>, stream_url >>
        output_opts == << <<"-c:v">>, <<"h264_v4l2m2m">>, <<"-c:a">>, <<"aac">>, <<"-f">>, <<"hls">>,
                          <<"-hls_time">>, <<"2">>, <<"-hls_list_size">>, <<"3">>,
                          <<"-hls_flags">>, <<"delete_segments">>,
                          <<"/", "t", "m", "p", "/", "s", "t", "r", "e", "a", "m", "_">>
                             \o stream_id \o (IF Used > 0 THEN <<"_", "1">> ELSE <<>>)
                             \o <<".", "m", "3", "u", "8">> >>
    IN base_cmd \o input_opts \o output_opts

\* a variant that compares stream_type without lower()
BuildFfmpegCommandCaseSensitive(stream_url, stream_type, stream_id) ==
    LET base_cmd == << <<"/usr/bin/ffmpeg">>, <<"-loglevel">>, <<"error">>, <<"-stimeout">>,
                       <<"30000000">> >>
        input_opts ==
           IF stream_type = <<"s", "r", "t">>
              THEN << <<"-i">>, <<"s", "r", "t", ":", "/", "/">> \o stream_url >>
              ELSE IF stream_type = <<"r", "t", "m", "p">>
                      THEN << <<"-i">>, <<"r", "t", "m", "p", ":", "/", "/">> \o stream_url >>
                      ELSE IF stream_type = <<"u", "d", "p">>
                              THEN << <<"-i">>, <<"u", "d", "p", ":", "/", "/">> \o stream_url >>
                              ELSE << <<"-i">>, stream_url >>
        output_opts == << <<"-c:v">>, <<"h264_v4l2m2m">>, <<"-c:a">>, <<"aac">>, <<"-f">>, <<"hls">>,
                          <<"-hls_time">>, <<"2">>, <<"-hls_list_size">>, <<"3">>,
                          <<"-hls_flags">>, <<"delete_segments">>,
                          <<"/", "t", "m", "p", "/", "s", "t", "r", "e", "a", "m", "_">>
                             \o stream_id \o <<".", "m", "3", "u", "8">> >>
    IN base_cmd \o input_opts \o output_opts

\* lines 77-107: the argument vector, with Config's values
BuildFfmpegCommand(stream_url, stream_type, stream_id) ==
    LET base_cmd == << <<"/usr/bin/ffmpeg">>, <<"-loglevel">>, <<"error">>, <<"-stimeout">>,
                       <<"30000000">> >>
        input_opts ==
           IF LowerStr(stream_type) = <<"s", "r", "t">>
              THEN << <<"-i">>, <<"s", "r", "t", ":", "/", "/">> \o stream_url >>
              ELSE IF LowerStr(stream_type) = <<"r", "t", "m", "p">>
                      THEN << <<"-i">>, <<"r", "t", "m", "p", ":", "/", "/">> \o stream_url >>
                      ELSE IF LowerStr(stream_type) = <<"u", "d", "p">>
                              THEN << <<"-i">>, <<"u", "d", "p", ":", "/", "/">> \o stream_url >>
                              ELSE << <<"-i">>, stream_url >>
        output_opts == << <<"-c:v">>, <<"h264_v4l2m2m">>, <<"-c:a">>, <<"aac">>, <<"-f">>, <<"hls">>,
                          <<"-hls_time">>, <<"2">>, <<"-hls_list_size">>, <<"3">>,
                          <<"-hls_flags">>, <<"delete_segments">>,
                          <<"/", "t", "m", "p", "/", "s", "t", "r", "e", "a", "m", "_">>
                             \o stream_id \o <<".", "m", "3", "u", "8">> >>
    IN base_cmd \o input_opts \o output_opts

\* the last argument: the playlist FFmpeg writes
OutputSink(argv) == argv[Len(argv)]

\* a call of _build_ffmpeg_command
Build(stream_url, stream_type, stream_id) ==
    /\ built' = [url |-> stream_url, type |-> stream_type, id |-> stream_id,
                 argv |-> BuildFfmpegCommand(stream_url, stream_type, stream_id)]
    /\ UNCHANGED <<active_streams, keys, info, proc, cmd, signals, nextProc, now, calls, reported,
                   th, mon, networkVars>>

\* ---------------------------------------------------------------- NetworkMonitor
\* a call of start_monitoring or stop_monitoring begins; threads are created up to MaxLoops
NmBegin ==
    /\ nmcall = "idle"
    /\ \/ nextLoop <= MaxLoops /\ nmcall' = "start_test"
       \/ nmcall' = "stop_set"
    /\ UNCHANGED <<decoderVars, monitoring, monitor_thread, stats_history, loop, nextLoop>>

\* lines 30-31: if self.monitoring: return
NmStartTest ==
    /\ nmcall = "start_test"
    /\ nmcall' = IF monitoring THEN "idle" ELSE "start_set"
    /\ UNCHANGED <<decoderVars, monitoring, monitor_thread, stats_history, loop, nextLoop>>

\* line 33: self.monitoring = True
NmStartSet ==
    /\ nmcall = "start_set"
    /\ monitoring' = TRUE
    /\ nmcall' = "start_thread"
    /\ UNCHANGED <<decoderVars, monitor_thread, stats_history, loop, nextLoop>>

\* lines 34-40: a new thread is stored in self.monitor_thread and started
NmStartThread ==
    /\ nmcall = "start_thread"
    /\ monitor_thread' = nextLoop
    /\ loop' = [loop EXCEPT ![nextLoop] = "test"]
    /\ nextLoop' = nextLoop + 1
    /\ nmcall' = "idle"
    /\ UNCHANGED <<decoderVars, monitoring, stats_history>>

\* lines 44-45: self.monitoring = False; if self.monitor_thread: ...
NmStopSet ==
    /\ nmcall = "stop_set"
    /\ monitoring' = FALSE
    /\ nmcall' = IF monitor_thread # None THEN "stop_join" ELSE "idle"
    /\ UNCHANGED <<decoderVars, monitor_thread, stats_history, loop, nextLoop>>

\* lines 46-47: self.monitor_thread.join(timeout=1) returns when the thread has ended, or
\* after one second while the thread is in a call that lasts longer: time.sleep(interval),
\* with an interval of 5 seconds, or get_network_stats, whose subprocesses have timeouts of
\* 5 and 10 seconds
NmStopJoin ==
    /\ nmcall = "stop_join"
    /\ loop[monitor_thread] \in {"done", "stats", "sleep"}
    /\ nmcall' = "idle"
    /\ UNCHANGED <<decoderVars, monitoring, monitor_thread, stats_history, loop, nextLoop>>

\* line 51: while self.monitoring
LoopTest(l) ==
    /\ loop[l] = "test"
    /\ loop' = [loop EXCEPT ![l] = IF monitoring THEN "stats" ELSE "done"]
    /\ UNCHANGED <<decoderVars, monitoring, monitor_thread, stats_history, nextLoop, nmcall>>

\* lines 53-62: the statistics are appended to stats_history, which is cut to max_history
\* entries (MaxHistory here), unless get_network_stats raised; then the sleep begins
LoopStats(l) ==
    /\ loop[l] = "stats"
    /\ \/ stats_history' = IF stats_history < MaxHistory THEN stats_history + 1 ELSE MaxHistory
       \/ UNCHANGED stats_history
    /\ loop' = [loop EXCEPT ![l] = "sleep"]
    /\ UNCHANGED <<decoderVars, monitoring, monitor_thread, nextLoop, nmcall>>

\* lines 64 and 68: time.sleep(interval) ends
LoopSleep(l) ==
    /\ loop[l] = "sleep"
    /\ loop' = [loop EXCEPT ![l] = "test"]
    /\ UNCHANGED <<decoderVars, monitoring, monitor_thread, stats_history, nextLoop, nmcall>>

\* ---------------------------------------------------------------- specifications
Next ==
    \/ \E t \in Callers : Begin(t, RaceIds, RaceSources, Ops)
    \/ \E t \in Callers : StartCheck(t)
    \/ \E t \in Callers : StartSpawn(t)
    \/ \E t \in Callers : StartInsert(t)
    \/ \E t \in Callers : StopCheck(t)
    \/ \E t \in Callers : StopFetch(t)
    \/ \E t \in Callers : StopTerminate(t)
    \/ \E t \in Callers : StopKill(t)
    \/ \E t \in Callers : StopDel(t)
    \/ \E t \in Callers : GsCheck(t)
    \/ \E t \in Callers : GsFetch(t)
    \/ \E t \in Callers : GsPoll(t)
    \/ \E t \in Callers : GsPayload(t)
    \/ \E t \in Callers : ListBegin(t)
    \/ \E t \in Callers : ListNext(t)
    \/ \E p \in Procs : MonGet(p)
    \/ \E p \in Procs : MonLoop(p)
    \/ \E p \in Procs : MonRead(p, Lines)
    \/ \E p \in Procs : MonParseError(p)
    \/ \E p \in Procs : ProcExit(p)

\* two callers, any interleaving, one stream
Spec == Init /\ [][Next]_vars

\* one caller, one call at a time, two streams; the monitors and the processes run beside it
NextSeq ==
    \/ \E t \in SeqCallers : Begin(t, SeqIds, Sources, Ops)
    \/ \E t \in SeqCallers : StartCheck(t)
    \/ \E t \in SeqCallers : StartSpawn(t)
    \/ \E t \in SeqCallers : StartInsert(t)
    \/ \E t \in SeqCallers : StopCheck(t)
    \/ \E t \in SeqCallers : StopFetch(t)
    \/ \E t \in SeqCallers : StopTerminate(t)
    \/ \E t \in SeqCallers : StopKill(t)
    \/ \E t \in SeqCallers : StopDel(t)
    \/ \E t \in SeqCallers : GsCheck(t)
    \/ \E t \in SeqCallers : GsFetch(t)
    \/ \E t \in SeqCallers : GsPoll(t)
    \/ \E t \in SeqCallers : GsPayload(t)
    \/ \E t \in SeqCallers : ListBegin(t)
    \/ \E t \in SeqCallers : ListNext(t)
    \/ \E p \in Procs : MonGet(p)
    \/ \E p \in Procs : MonLoop(p)
    \/ \E p \in Procs : MonRead(p, SeqLines)
    \/ \E p \in Procs : ProcExit(p)

SpecSeq == Init /\ [][NextSeq]_vars

\* one caller that starts and stops one stream, the monitors and the processes
NextLife ==
    \/ \E t \in SeqCallers : Begin(t, SeqIds, RaceSources, LifeOps)
    \/ \E t \in SeqCallers : StartCheck(t)
    \/ \E t \in SeqCallers : StartSpawn(t)
    \/ \E t \in SeqCallers : StartInsert(t)
    \/ \E t \in SeqCallers : StopCheck(t)
    \/ \E t \in SeqCallers : StopFetch(t)
    \/ \E t \in SeqCallers : StopTerminate(t)
    \/ \E t \in SeqCallers : StopKill(t)
    \/ \E t \in SeqCallers : StopDel(t)
    \/ \E p \in Procs : MonGet(p)
    \/ \E p \in Procs : MonLoop(p)
    \/ \E p \in Procs : MonRead(p, SeqLines)
    \/ \E p \in Procs : ProcExit(p)

\* readline() on the stderr of a process that has exited: what the pipe still holds, then EOF
MonReadExited(p) ==
    /\ mon[p].pc = "read"
    /\ Exited(info[mon[p].info].process)
    /\ MonRead(p, SeqLines)

\* the monitor is a thread of its own: it is scheduled again and again, and its only
\* blocking call, readline(), returns once the process has exited
MonitorRuns == \A p \in Procs : WF_vars(MonGet(p)) /\ WF_vars(MonLoop(p)) /\ WF_vars(MonReadExited(p))

SpecLife == Init /\ [][NextLife]_vars /\ MonitorRuns

\* one caller that starts, stops and queries one stream whose process writes every kind of
\* line
NextParse ==
    \/ \E t \in SeqCallers : Begin(t, SeqIds, RaceSources, ParseOps)
    \/ \E t \in SeqCallers : StartCheck(t)
    \/ \E t \in SeqCallers : StartSpawn(t)
    \/ \E t \in SeqCallers : StartInsert(t)
    \/ \E t \in SeqCallers : StopCheck(t)
    \/ \E t \in SeqCallers : StopFetch(t)
    \/ \E t \in SeqCallers : StopTerminate(t)
    \/ \E t \in SeqCallers : StopKill(t)
    \/ \E t \in SeqCallers : StopDel(t)
    \/ \E t \in SeqCallers : GsCheck(t)
    \/ \E t \in SeqCallers : GsFetch(t)
    \/ \E t \in SeqCallers : GsPoll(t)
    \/ \E t \in SeqCallers : GsPayload(t)
    \/ \E p \in Procs : MonGet(p)
    \/ \E p \in Procs : MonLoop(p)
    \/ \E p \in Procs : MonRead(p, ParseLines)
    \/ \E p \in Procs : MonParseError(p)
    \/ \E p \in Procs : ProcExit(p)

SpecParse == Init /\ [][NextParse]_vars

\* one caller that starts and stops two streams, whose processes write lines that change
\* the stored status
NextPair ==
    \/ \E t \in SeqCallers : Begin(t, StreamIds, RaceSources, LifeOps)
    \/ \E t \in SeqCallers : StartCheck(t)
    \/ \E t \in SeqCallers : StartSpawn(t)
    \/ \E t \in SeqCallers : StartInsert(t)
    \/ \E t \in SeqCallers : StopCheck(t)
    \/ \E t \in SeqCallers : StopFetch(t)
    \/ \E t \in SeqCallers : StopTerminate(t)
    \/ \E t \in SeqCallers : StopKill(t)
    \/ \E t \in SeqCallers : StopDel(t)
    \/ \E p \in Procs : MonGet(p)
    \/ \E p \in Procs : MonLoop(p)
    \/ \E p \in Procs : MonRead(p, PairLines)
    \/ \E p \in Procs : MonParseError(p)
    \/ \E p \in Procs : ProcExit(p)

SpecPair == Init /\ [][NextPair]_vars

\* calls of _build_ffmpeg_command with every url, type and id
NextBuild == \E u \in BuildUrls, ty \in BuildTypes, i \in BuildIds : Build(u, ty, i)

SpecBuild == Init /\ [][NextBuild]_vars

\* the arguments of the calls of _build_ffmpeg_command that run beside the registry's life
LiveUrls == {<<"h">>}
LiveTypes == {<<"s", "r", "t">>, <<"a", "u", "t", "o">>}
LiveIds == {<<"a">>}

\* calls of _build_ffmpeg_command at any moment of the life of one stream
NextBuildLive ==
    \/ NextLife
    \/ \E u \in LiveUrls, ty \in LiveTypes, i \in LiveIds : Build(u, ty, i)

SpecBuildLive == Init /\ [][NextBuildLive]_vars

\* one thread that calls start_monitoring and stop_monitoring, one call after the other, and
\* the _monitor_loop threads
NextNet ==
    \/ NmBegin
    \/ NmStartTest
    \/ NmStartSet
    \/ NmStartThread
    \/ NmStopSet
    \/ NmStopJoin
    \/ \E l \in Loops : LoopTest(l)
    \/ \E l \in Loops : LoopStats(l)
    \/ \E l \in Loops : LoopSleep(l)

SpecNet == Init /\ [][NextNet]_vars

\* the entry inserted for process p is the one registered under its stream id
Registered(p) == cmd[p] \in StreamIds /\ active_streams[cmd[p]] = p

\* a start_stream or stop_stream call for the stream id of process p is under way
Restarting(p) ==
    \E t \in Callers : th[t].op \in {"start", "stop"} /\ th[t].pc # "done" /\ th[t].id = cmd[p]

\* ---------------------------------------------------------------- claims
\* the live processes that were spawned for stream id i
LiveFor(i) == {p \in Procs : proc[p] = "running" /\ cmd[p] = i}

\* C1: in every reachable state, whatever the interleaving of start_stream and stop_stream
\* calls, at most one live process was spawned for any given stream id
C1_AtMostOneLiveProcess == \A i \in StreamIds : Cardinality(LiveFor(i)) <= 1

\* the caller t has returned from a call of operation op
Done(t, op) == th[t].pc = "done" /\ th[t].op = op

\* C2: with one caller, when start_stream restarts a registered id every process spawned earlier
\* for that id is dead at the moment the new entry is inserted, and when the call has returned
\* True the id's only process that can be alive is the one of the registered entry
C2_RestartKillsFirst ==
    \A t \in SeqCallers :
       /\ th[t].pc = "start_insert" => LiveFor(th[t].id) \subseteq {th[t].info}
       /\ (Done(t, "start") /\ th[t].ret = Returned(TRUE))
             => /\ active_streams[th[t].id] # Absent
                /\ LiveFor(th[t].id) \subseteq {active_streams[th[t].id]}

\* a second start_stream("s1") has returned True: the first process was killed, the second
\* is registered and running
C2_Witness ==
    /\ Done("c1", "start") /\ th["c1"].id = "s1" /\ th["c1"].ret = Returned(TRUE)
    /\ active_streams["s1"] = 2 /\ proc[2] = "running"
    /\ proc[1] = "dead" /\ signals[1] = <<"TERM", "KILL">>

\* C3 as the specification states it: once stop_stream has sent the terminate signal and
\* until it returns, the id is no longer in the registry
C3_RemovedAtOnce ==
    \A t \in SeqCallers :
       (th[t].op = "stop" /\ th[t].pc \in {"stop_wait", "stop_del"})
          => active_streams[th[t].id] = Absent

\* C3: with no overlapping call, stop_stream removes the id from the registry last: while it
\* waits after the terminate signal and when it kills, the entry it fetched is still
\* registered, and when it comes to delete the entry the process has exited
C3_RemovedLast ==
    \A t \in SeqCallers :
       /\ th[t].pc \in {"stop_wait", "stop_del"} => active_streams[th[t].id] = th[t].info
       /\ th[t].pc = "stop_del" => Exited(info[th[t].info].process)

\* stop_stream("s1") has sent the terminate signal to a process that is still running, and
\* "s1" is still registered
C3_Witness ==
    /\ th["c1"].op = "stop" /\ th["c1"].pc = "stop_wait" /\ th["c1"].id = "s1"
    /\ active_streams["s1"] = 1 /\ proc[1] = "running" /\ signals[1] = <<"TERM">>

\* C4: a stop_stream or get_stream_status call that finds its id missing from the registry
\* returns at once, False and not_found, without raising, without a signal to any process and
\* without a change to the registry
C4_UnknownId ==
    [][\A t \in Callers :
         /\ (th[t].pc = "stop_check" /\ th[t].op = "stop" /\ active_streams[th[t].id] = Absent
                /\ th'[t] # th[t])
               => /\ th'[t].pc = "done" /\ th'[t].ret = Returned(FALSE)
                  /\ UNCHANGED <<active_streams, keys, info, proc, signals>>
         /\ (th[t].pc = "gs_check" /\ th[t].op = "status" /\ active_streams[th[t].id] = Absent
                /\ th'[t] # th[t])
               => /\ th'[t].pc = "done" /\ th'[t].ret = NotFound
                  /\ UNCHANGED <<active_streams, keys, info, proc, signals>>]_vars

\* stop_stream("s1") has returned False on an empty registry, and no signal was ever sent
C4_Witness ==
    /\ Done("c1", "stop") /\ th["c1"].id = "s1" /\ th["c1"].ret = Returned(FALSE)
    /\ active_streams["s1"] = Absent
    /\ \A p \in Procs : signals[p] = <<>>

\* C5: a process that has exited stays exited, and a get_stream_status call that polls the
\* process of a registered entry after its exit reports exactly {'status': 'stopped'},
\* whatever status the entry stores
C5_ExitedReportsStopped ==
    [][/\ \A p \in Procs : Exited(p) => proc'[p] = "dead"
       /\ \A t \in SeqCallers :
            (th[t].op = "status" /\ th[t].pc = "gs_poll" /\ th'[t] # th[t]
                /\ Exited(info[th[t].info].process))
               => th'[t].pc = "done" /\ th'[t].ret = Stopped]_vars

\* get_stream_status("s1") has reported stopped for a process that exited on its own while
\* the entry still stores 'starting'
C5_Witness ==
    /\ Done("c1", "status") /\ th["c1"].id = "s1" /\ th["c1"].ret = Stopped
    /\ active_streams["s1"] = 1 /\ proc[1] = "dead" /\ signals[1] = <<>>
    /\ info[1].status = "starting"

\* C6 as the specification states it: when the process of a registered entry has exited on
\* its own, the id leaves the registry unless a start_stream or stop_stream call for it
\* comes
C6_MonitorReaps ==
    \A p \in Procs :
       (proc[p] = "dead" /\ signals[p] = <<>> /\ Registered(p))
          ~> (~Registered(p) \/ Restarting(p))

\* C6: the monitor never removes an entry: an id leaves the registry only at the del of a
\* stop_stream call; a monitor that ends on the exit of its entry's process has stored the
\* status 'stopped' in that entry; and once the process of a registered entry has exited,
\* 'stopped' gets stored in the entry unless the entry is removed
C6_MonitorStoresStopped ==
    /\ [][/\ \A i \in StreamIds :
               (active_streams[i] # Absent /\ active_streams'[i] = Absent)
                  => \E t \in Callers : th[t].pc = "stop_del" /\ th[t].id = i /\ th'[t] # th[t]
          /\ \A p \in Procs :
               (mon[p].pc = "loop" /\ mon'[p].pc = "exit" /\ active_streams[mon[p].id] # Absent)
                  => /\ info'[mon[p].info].status = "stopped"
                     /\ active_streams' = active_streams]_vars
    /\ \A p \in Procs :
          (proc[p] = "dead" /\ Registered(p)) ~> (info[p].status = "stopped" \/ ~Registered(p))

\* the process of "s1" exited on its own, its monitor has stored 'stopped' and ended, no call
\* is under way, and "s1" is still registered
C6_Witness ==
    /\ proc[1] = "dead" /\ signals[1] = <<>> /\ mon[1] = ExitedMonitor
    /\ active_streams["s1"] = 1 /\ info[1].status = "stopped"
    /\ th["c1"].pc = "done"

\* C7: with one caller, start_stream never raises and never refuses a registered id: when it
\* has returned True the registry holds, for its id, an entry with the url and type of this
\* call and the status 'starting' or what the monitor has since stored
C7_RestartReplaces ==
    \A t \in SeqCallers :
       Done(t, "start")
          => /\ th[t].ret \in {Returned(TRUE), Returned(FALSE)}
             /\ th[t].ret = Returned(TRUE)
                   => /\ active_streams[th[t].id] # Absent
                      /\ info[active_streams[th[t].id]].url = th[t].url
                      /\ info[active_streams[th[t].id]].type = th[t].type
                      /\ info[active_streams[th[t].id]].process = active_streams[th[t].id]

\* a second start_stream("s1"), with another source than the first, has returned True and
\* the registered entry is the second one
C7_Witness ==
    /\ Done("c1", "start") /\ th["c1"].id = "s1" /\ th["c1"].ret = Returned(TRUE)
    /\ th["c1"].url = "rtmp://other" /\ info[1].url = "host:9000"
    /\ active_streams["s1"] = 2 /\ info[2].url = "rtmp://other" /\ info[2].type = "rtmp"

\* C8: the del of a stop_stream call never removes the entry of a process that is running
C8_StopNeverOrphans ==
    [][\A t \in Callers :
         (th[t].op = "stop" /\ th[t].pc = "stop_del" /\ th'[t] # th[t])
            => \A p \in Procs :
                 (active_streams[th[t].id] = p /\ proc[p] = "running")
                    => active_streams'[th[t].id] = p]_vars

\* C9: no step of a get_stream_status or get_all_streams call changes the registry, its key
\* order, an entry or a process
C9_QueriesReadOnly ==
    [][\A t \in SeqCallers :
         (th[t].op \in {"status", "list"} /\ th[t].pc \notin {"idle", "done"} /\ th'[t] # th[t])
            => UNCHANGED <<active_streams, keys, info, proc, cmd, signals>>]_vars

\* get_all_streams has returned a listing in which "s1" is stopped, and "s1" is still
\* registered
C9_Witness ==
    /\ Done("c1", "list") /\ th["c1"].ret.tag = "list"
    /\ th["c1"].ret.streams["s1"] = Stopped
    /\ active_streams["s1"] = 1 /\ proc[1] = "dead"

\* C10: with one caller, once get_stream_status has reported an entry as stopped no later
\* call passes the liveness test on that entry, so that every later report on it is stopped
C10_StoppedIsFinal ==
    \A t \in SeqCallers :
       /\ th[t].pc = "gs_payload" => th[t].info \notin reported
       /\ \A p \in reported : Exited(info[p].process)

\* a later get_stream_status("s1") is about to poll the entry an earlier call reported stopped
C10_Witness ==
    /\ th["c1"].op = "status" /\ th["c1"].pc = "gs_poll" /\ th["c1"].info = 1
    /\ 1 \in reported /\ active_streams["s1"] = 1

\* C11: a get_stream_status or get_all_streams call that runs while start_stream and
\* stop_stream calls run always returns a value: it never ends with an exception
C11_QueriesNeverRaise ==
    \A t \in Callers :
       (Done(t, "status") \/ Done(t, "list")) => th[t].ret.tag # "raise"

\* C12: whenever the monitor of a registered stream reads a line that holds "error" or
\* "failed" in whatever letter case, alone or with the video pattern, it goes on to store
\* the status 'error'
C12_ErrorAnyCase ==
    [][\A p \in Procs :
         \A line \in {LineError, LineVideoError, LineLowerError, LineUpperFailed} :
            (MonReadLine(p, line) /\ active_streams[mon[p].id] # Absent)
               => mon'[p].pc = "parse_error"]_vars

\* C13 as the specification states it: the stored status of a registered stream whose
\* process runs stays 'error' from one state to the next
C13_ErrorStays ==
    [][\A p \in Procs :
         (info[p].status = "error" /\ Registered(p) /\ proc[p] = "running"
             /\ Registered(p)' /\ proc'[p] = "running")
            => info'[p].status = "error"]_vars

\* C13: a stream in error is only reported. No monitor step signals or ends a process,
\* spawns one or changes the registry; the process of an entry in error is signalled only
\* by a stop_stream call on it and the entry is removed only by the del of stop_stream;
\* and the stored 'error' changes only to 'playing', on a later line, or to 'stopped',
\* once the process has exited
C13_ErrorOnlyReported ==
    [][/\ (\E p \in Procs : mon[p].pc # "unstarted" /\ mon'[p] # mon[p])
             => UNCHANGED <<active_streams, keys, proc, cmd, signals, nextProc>>
       /\ \A p \in Procs :
            (info[p].status = "error" /\ Registered(p))
               => /\ signals'[p] # signals[p]
                        => \E t \in Callers : th[t].pc \in {"stop_term", "stop_wait"} /\ th[t].info = p
                  /\ ~Registered(p)'
                        => \E t \in Callers : th[t].pc = "stop_del" /\ th[t].id = cmd[p]
                  /\ info'[p].status \in {"error", "playing", "stopped"}
                  /\ info'[p].status = "stopped" => Exited(p)]_vars

\* get_stream_status("s1") has reported 'error' for a running process that no one signalled,
\* and "s1" is still registered with the status 'error'
C13_Witness ==
    /\ Done("c1", "status") /\ th["c1"].ret.tag = "status" /\ th["c1"].ret.status = "error"
    /\ active_streams["s1"] = 1 /\ info[1].status = "error"
    /\ proc[1] = "running" /\ signals[1] = <<>>

\* C14: with one caller, a start_stream call whose Popen fails returns False, never an
\* exception; when it has returned its id is not in the registry, whether or not the id was
\* registered before, no process was spawned by it, and monitors exist only for entries
\* that were inserted
C14_SpawnFailure ==
    /\ \A t \in SeqCallers :
          Done(t, "start")
             => /\ th[t].ret.tag = "return"
                /\ th[t].ret = Returned(FALSE) => active_streams[th[t].id] = Absent
    /\ \A p \in Procs :
          /\ mon[p].pc # "unstarted" => info[p].process = p
          /\ p >= nextProc => proc[p] = "unspawned" /\ info[p] = NoInfo

\* a start_stream("s1") on a registered "s1" has returned False: the earlier process was
\* stopped, no second process was spawned, no second monitor exists and "s1" is absent
C14_Witness ==
    /\ Done("c1", "start") /\ th["c1"].id = "s1" /\ th["c1"].ret = Returned(FALSE)
    /\ proc[1] = "dead" /\ signals[1] # <<>> /\ nextProc = 2
    /\ mon[2] = NoMonitor /\ active_streams["s1"] = Absent

\* C15: with one caller, a stop_stream call on a registered id goes through every one of
\* its statements and returns True, whether the process exited by itself or was killed;
\* its process is dead from the end of the sleep on, and the id is out of the registry when
\* the call returns
C15_StopSucceeds ==
    [][\A t \in SeqCallers :
         (th[t].op = "stop" /\ th'[t] # th[t])
            => /\ (th[t].pc = "stop_check" /\ active_streams[th[t].id] # Absent)
                     => th'[t].pc = "stop_fetch"
               /\ th[t].pc = "stop_fetch" => th'[t].pc = "stop_term"
               /\ th[t].pc = "stop_term" => th'[t].pc = "stop_wait"
               /\ th[t].pc = "stop_wait"
                     => th'[t].pc = "stop_del" /\ proc'[info[th[t].info].process] = "dead"
               /\ th[t].pc = "stop_del"
                     => /\ th'[t].pc = "done" /\ th'[t].ret = Returned(TRUE)
                        /\ active_streams'[th[t].id] = Absent
                        /\ proc'[info[th[t].info].process] = "dead"]_vars

\* stop_stream("s1") has returned True after it had to kill the process, and "s1" is absent
C15_Witness ==
    /\ Done("c1", "stop") /\ th["c1"].id = "s1" /\ th["c1"].ret = Returned(TRUE)
    /\ signals[1] = <<"TERM", "KILL">> /\ proc[1] = "dead"
    /\ nextProc = 2 /\ active_streams["s1"] = Absent

\* C16: with one caller, the signals of a process come in order. The first is the terminate
\* signal, sent by stop_stream before its sleep to a process that runs; the second and last
\* is the kill, sent when the sleep is over, one unit of time later, and only to a process
\* that still runs then: a process that exited during the sleep is never killed
C16_Escalation ==
    [][\A p \in Procs :
         signals'[p] # signals[p]
            => \E t \in SeqCallers :
                 /\ th[t].info = p /\ proc[p] = "running"
                 /\ \/ /\ th[t].pc = "stop_term" /\ th'[t].pc = "stop_wait"
                       /\ signals[p] = <<>> /\ signals'[p] = <<"TERM">>
                       /\ now' = now
                    \/ /\ th[t].pc = "stop_wait" /\ th'[t].pc = "stop_del"
                       /\ signals[p] = <<"TERM">> /\ signals'[p] = <<"TERM", "KILL">>
                       /\ now' = now + 1 \/ now = MaxTime]_vars

\* stop_stream("s1") has returned True for a process that exited during the sleep: the
\* process got the terminate signal and no kill
C16_Witness ==
    /\ Done("c1", "stop") /\ th["c1"].id = "s1" /\ th["c1"].ret = Returned(TRUE)
    /\ signals[1] = <<"TERM">> /\ proc[1] = "dead"
    /\ active_streams["s1"] = Absent /\ now = 1

\* C17: every step of a start_stream or stop_stream call for one id, and every step of the
\* monitor of one id, leaves alone every other id: its registry entry, the fields of the
\* entries inserted for it, its processes and their signals
C17_Independent ==
    [][\A y \in StreamIds :
         (\/ \E t \in SeqCallers :
                th'[t] # th[t] /\ th[t].pc \notin {"idle", "done"} /\ th[t].id # y
          \/ \E p \in Procs :
                mon'[p] # mon[p] /\ mon[p].pc # "unstarted" /\ mon[p].id # y)
            => /\ active_streams'[y] = active_streams[y]
               /\ \A q \in Procs :
                    cmd[q] = y => /\ info'[q] = info[q] /\ proc'[q] = proc[q]
                                  /\ signals'[q] = signals[q] /\ cmd'[q] = y]_vars

\* stop_stream("s1") has returned True, its process was killed, and "s2" is still
\* registered with a running process that got no signal
C17_Witness ==
    /\ Done("c1", "stop") /\ th["c1"].id = "s1" /\ th["c1"].ret = Returned(TRUE)
    /\ cmd[1] = "s1" /\ signals[1] = <<"TERM", "KILL">> /\ active_streams["s1"] = Absent
    /\ cmd[2] = "s2" /\ active_streams["s2"] = 2 /\ proc[2] = "running" /\ signals[2] = <<>>
    /\ info[2].status = "playing"

\* C18 as the specification states it: get_stream_status on a registered id returns a
\* payload with status, url, type and duration, whatever the status
C18_FullPayloadAlways ==
    \A t \in SeqCallers :
       (Done(t, "status") /\ active_streams[th[t].id] # Absent)
          => {"status", "url", "type", "duration"} \subseteq DOMAIN th[t].ret

\* C18: with one caller, get_stream_status on a registered id returns either the bare
\* {'status': 'stopped'}, and then the process has exited, or the status with the url, type
\* and age of the registered entry; get_all_streams returns a value for exactly the
\* registered ids, and that value is one of the same two shapes
C18_PayloadOrStopped ==
    \A t \in SeqCallers :
       LET Shape(r, i) ==
              LET e == info[active_streams[i]] IN
              \/ r = Stopped /\ Exited(e.process)
              \/ /\ DOMAIN r = {"tag", "status", "url", "type", "duration"}
                 /\ r.status \in {"starting", "playing", "error", "stopped"}
                 /\ r.url = e.url /\ r.type = e.type /\ r.duration = now - e.start_time
       IN
       /\ (Done(t, "status") /\ active_streams[th[t].id] # Absent) => Shape(th[t].ret, th[t].id)
       /\ Done(t, "list")
             => /\ th[t].ret.tag = "list"
                /\ \A i \in StreamIds :
                      IF active_streams[i] = Absent
                         THEN th[t].ret.streams[i] = NoRet
                         ELSE Shape(th[t].ret.streams[i], i)

\* get_all_streams has returned, for the registered "s1" whose process runs, the payload
\* with the url and type of its entry
C18_Witness ==
    /\ Done("c1", "list") /\ th["c1"].ret.tag = "list"
    /\ active_streams["s1"] = 1 /\ proc[1] = "running"
    /\ th["c1"].ret.streams["s1"] = Payload(info[1], now)
    /\ th["c1"].ret.streams["s1"].url = "rtmp://other"

\* C19: with one caller, get_stream_status on a registered id whose process runs reports
\* the stored status, which is 'starting', 'playing' or 'error'. The stored status is
\* 'starting' from the insertion on; it becomes 'error' only when a monitor has read a line
\* with 'Error' or 'Failed', 'playing' only when a monitor reads a line with the video
\* pattern, and 'stopped' only once the process has exited
C19_StartingOrPlaying ==
    [][/\ \A t \in SeqCallers :
            (th[t].op = "status" /\ th'[t] # th[t] /\ active_streams[th[t].id] # Absent)
               => /\ th[t].pc = "gs_check" => th'[t].pc = "gs_fetch"
                  /\ th[t].pc = "gs_fetch" => th'[t].pc = "gs_poll"
                  /\ (th[t].pc = "gs_poll" /\ proc[info[th[t].info].process] = "running")
                        => th'[t].pc = "gs_payload"
                  /\ (th[t].pc = "gs_payload" /\ proc[info[th[t].info].process] = "running")
                        => /\ th'[t].ret.status = info[th[t].info].status
                           /\ th'[t].ret.status \in {"starting", "playing", "error"}
       /\ \A p \in Procs :
            info'[p].status # info[p].status
               => \/ /\ info'[p].status = "starting"
                     /\ info[p] = NoInfo
                     /\ \E t \in SeqCallers : th[t].pc = "start_insert" /\ th[t].info = p
                  \/ /\ info'[p].status = "playing"
                     /\ \E q \in Procs : MonReadLine(q, LineVideo) \/ MonReadLine(q, LineVideoError)
                  \/ /\ info'[p].status = "error"
                     /\ \E q \in Procs : mon[q].pc = "parse_error" /\ mon[q].pinfo = p
                  \/ /\ info'[p].status = "stopped"
                     /\ Exited(info[p].process)]_vars

\* get_stream_status("s1") has reported 'starting' for a running process whose monitor has
\* not taken its first step
C19_Witness ==
    /\ Done("c1", "status") /\ th["c1"].ret.tag = "status" /\ th["c1"].ret.status = "starting"
    /\ active_streams["s1"] = 1 /\ proc[1] = "running"
    /\ mon[1].pc = "get" /\ nextProc = 2

\* C20: the playlist path built for one stream id differs from the path built, for the
\* same url and type, for any other stream id
C20_SinkInjective ==
    built # NoBuild
       => \A b \in BuildIds :
             b # built.id
                => OutputSink(BuildFfmpegCommand(built.url, built.type, b)) # OutputSink(built.argv)

\* the command was built for the id "a/" and writes to /tmp/stream_a/.m3u8
C20_Witness ==
    /\ built.id = <<"a", "/">>
    /\ OutputSink(built.argv) = <<"/", "t", "m", "p", "/", "s", "t", "r", "e", "a", "m", "_",
                                  "a", "/", ".", "m", "3", "u", "8">>

IsScheme(stream_type, scheme) ==
    /\ Len(stream_type) = Len(scheme)
    /\ \A k \in DOMAIN scheme : Lower(stream_type[k]) = scheme[k]

\* C22: the argument vector holds '-i' and then the input: for the types srt, rtmp and udp,
\* in whatever letter case, the scheme in lower case, '://' and the url as given; for every
\* other type, 'auto' and the empty type among them, the url as given
C22_InputArgument ==
    built # NoBuild
       => /\ built.argv[6] = <<"-i">>
          /\ \A scheme \in {<<"s", "r", "t">>, <<"r", "t", "m", "p">>, <<"u", "d", "p">>} :
                IsScheme(built.type, scheme)
                   => built.argv[7] = scheme \o <<":", "/", "/">> \o built.url
          /\ (\A scheme \in {<<"s", "r", "t">>, <<"r", "t", "m", "p">>, <<"u", "d", "p">>} :
                ~IsScheme(built.type, scheme))
                => built.argv[7] = built.url

\* the command was built for the type 'SRT' and reads from srt://h
C22_Witness ==
    /\ built.type = <<"S", "R", "T">> /\ built.url = <<"h">>
    /\ built.argv[7] = <<"s", "r", "t", ":", "/", "/", "h">>

\* the monitor thread q is in its loop
Looping(q) == mon[q].pc \in {"loop", "read", "parse_error"}

\* C23: the status stored in an entry is always 'starting', 'playing', 'error' or 'stopped',
\* never 'not_found'; a call returns {'status': 'not_found'}, to its caller or into the
\* listing of get_all_streams, only from the test of get_stream_status that finds the id
\* missing from the registry
C23_StoredStates ==
    /\ [](\A p \in Procs :
            info[p] # NoInfo => info[p].status \in {"starting", "playing", "error", "stopped"})
    /\ [][\A t \in Callers :
            /\ (th'[t].ret = NotFound /\ th[t].ret # NotFound)
                  => /\ th[t].op = "status" /\ th[t].pc = "gs_check"
                     /\ active_streams[th[t].id] = Absent
            /\ \A i \in StreamIds :
                  (th'[t].acc[i] = NotFound /\ th[t].acc[i] # NotFound)
                     => /\ th[t].op = "list" /\ th[t].pc = "gs_check" /\ th[t].key = i
                        /\ active_streams[i] = Absent]_vars

\* get_stream_status("s1") has returned not_found after "s1" was stopped; the entry that was
\* removed stores 'error'
C23_Witness ==
    /\ Done("c1", "status") /\ th["c1"].id = "s1" /\ th["c1"].ret = NotFound
    /\ active_streams["s1"] = Absent /\ info[1].status = "error"

\* C24: a step of the monitor that was started for the entry q, taken when that entry is no
\* longer the one registered under its id, changes no registered entry
C24_StaleMonitorInvisible ==
    [][\A q \in Procs :
         (mon'[q] # mon[q] /\ Looping(q) /\ mon[q].info = q /\ active_streams[cmd[q]] # q)
            => \A i \in StreamIds :
                 active_streams[i] # Absent => info'[active_streams[i]] = info[active_streams[i]]]_vars

\* C25: every monitor thread in its loop reads the stderr of the process that was spawned by
\* the start_stream call that started the thread, so that no process has two readers
C25_OwnMonitorOnly ==
    /\ \A q \in Procs : Looping(q) => info[mon[q].info].process = q
    /\ \A p \in Procs :
          Cardinality({q \in Procs : Looping(q) /\ info[mon[q].info].process = p}) <= 1

\* C26: a monitor thread in its loop, reading or between two reads, whose process has exited
\* and whose entry is no longer the one registered under its id, comes to its end, whether the
\* id stays out of the registry or is registered again
C26_MonitorExits ==
    \A q \in Procs :
       (Looping(q) /\ Exited(info[mon[q].info].process) /\ active_streams[mon[q].id] # mon[q].info)
          ~> (mon[q].pc = "exit")

\* the monitor of the first process of "s1" is still in readline() after a restart has
\* killed that process and registered a second one, which runs
C26_Witness ==
    /\ mon[1].pc = "read" /\ mon[1].info = 1 /\ proc[1] = "dead"
    /\ signals[1] = <<"TERM", "KILL">>
    /\ active_streams["s1"] = 2 /\ proc[2] = "running"

\* C27: the status stored in an entry is 'starting' at the insertion and never again; it
\* becomes 'playing' or 'error' only at a step of a monitor that has read a line; and once
\* it is 'stopped' no step changes it
C27_StateMachine ==
    [][\A p \in Procs :
         /\ (info[p] = NoInfo /\ info'[p] # NoInfo) => info'[p].status = "starting"
         /\ (info[p] # NoInfo /\ info'[p].status # info[p].status)
               => /\ info'[p].status # "starting"
                  /\ info'[p].status \in {"playing", "error"}
                        => \E q \in Procs : mon[q].pc \in {"read", "parse_error"} /\ mon'[q] # mon[q]
                  /\ info[p].status # "stopped"]_vars

\* C28: when a monitor reads a line with the video pattern and without 'Error' or 'Failed',
\* the entry registered under its id stores 'playing' afterwards, whether it stored
\* 'starting' or 'error' before, and the monitor goes back to its loop; when it reads a line
\* that matches neither pattern, no entry changes
C28_VideoLinePlays ==
    [][\A q \in Procs :
         /\ (MonReadLine(q, LineVideo) /\ active_streams[mon[q].id] # Absent)
               => /\ info'[active_streams[mon[q].id]].status = "playing"
                  /\ mon'[q].pc = "loop"
         /\ \A line \in {LineOther, LineLowerError, LineUpperFailed} :
               MonReadLine(q, line) => info' = info /\ mon'[q].pc = "loop"]_vars

\* get_stream_status("s1") had reported 'error', and the entry of "s1" stores 'playing' now:
\* its monitor has read a video line since
C28_Witness ==
    /\ Done("c1", "status") /\ th["c1"].ret.tag = "status" /\ th["c1"].ret.status = "error"
    /\ active_streams["s1"] = 1 /\ nextProc = 2 /\ proc[1] = "running"
    /\ info[1].status = "playing" /\ mon[1].pc = "loop"

\* C29: as long as an entry is registered, from its insertion to its removal, its process,
\* url, type and start_time are the ones it was inserted with: a step changes at most its
\* status
C29_OnlyStatusWritten ==
    [][\A p \in Procs :
         (Registered(p) /\ Registered(p)')
            => /\ info'[p].process = info[p].process /\ info'[p].url = info[p].url
               /\ info'[p].type = info[p].type /\ info'[p].start_time = info[p].start_time
               /\ info[p].process = p]_vars

\* the entry of "s1" stores 'stopped', written by its monitor, and still holds the url, type
\* and start time of the start_stream call that inserted it
C29_Witness ==
    /\ active_streams["s1"] = 1 /\ info[1].status = "stopped" /\ mon[1] = ExitedMonitor
    /\ Done("c1", "start") /\ info[1].url = th["c1"].url /\ info[1].type = th["c1"].type
    /\ info[1].url = "rtmp://other" /\ info[1].start_time = 0 /\ info[1].process = 1

\* the _monitor_loop threads that have been started and have not ended
RunningLoops == {l \in Loops : loop[l] \in {"test", "stats", "sleep"}}

\* C30: whenever no start_monitoring or stop_monitoring call is under way, at most one
\* _monitor_loop thread is alive
C30_OneLoop == nmcall = "idle" => Cardinality(RunningLoops) <= 1

====
